---- MODULE Spec2Model ----
(***************************************************************************)
(* The voice-session relay of backend/api/v1/endpoints/realtime.py:        *)
(* class RealtimeSession and the websocket endpoint that runs it.          *)
(*                                                                         *)
(* One session owns the caller websocket (self.websocket) and the upstream *)
(* websocket (self.openai_ws).  run() opens the upstream connection and    *)
(* then gathers two coroutines: process_client_messages (caller ->         *)
(* upstream) and process_openai_messages (upstream -> caller, and tool     *)
(* dispatch through handle_tool_call, awaited inline).  The coroutines are *)
(* asyncio tasks on one event loop: a step of the model is the code        *)
(* between two awaits, so every await is a point where the other coroutine *)
(* or the environment may act.                                             *)
(*                                                                         *)
(* The initiate_return tool ends in ReturnsAgent.initiate_return of        *)
(* backend/agents/returns_agent.py, which works on the orders and returns  *)
(* collections of the database; it is specified on its own (SpecReturns).  *)
(***************************************************************************)
EXTENDS Integers, Sequences, FiniteSets, TLC

\* Bound of the model: how many frames the two peers send, together, during
\* one session.
MaxFrames == 2

\* Bounds of the returns model: the largest quantity of the product in the
\* order, and how many initiate_return calls are made.
MaxOrdered == 2
MaxCalls == 3

VARIABLES
    is_active,          \* RealtimeSession.is_active
    websocket_closed,   \* RealtimeSession.websocket_closed
    openai_ws,          \* RealtimeSession.openai_ws: the upstream connection
    callerUp,           \* whether the caller connection is still there
    pcRun,              \* position of realtime_websocket / run
    pcA,                \* position of process_client_messages
    pcB,                \* position of process_openai_messages
    cur,                \* the tool call process_openai_messages is serving
    fromCaller,         \* frames read from the caller, in receipt order
    fromUpstream,       \* frames read from upstream, in receipt order
    toUpstream,         \* frames written to upstream, in write order
    toCaller,           \* frames written to the caller, in write order
    activeTurn,         \* observer: a requested response is neither done nor cancelled
    orders,             \* CosmosDBService.orders: the order documents, by id
    returns,            \* CosmosDBService.returns: the return records, in insertion order
    results             \* what each initiate_return call answered, in call order

sessionVars == <<is_active, websocket_closed, openai_ws, callerUp, pcRun, pcA, pcB,
                 cur, fromCaller, fromUpstream, toUpstream, toCaller, activeTurn>>

returnsVars == <<orders, returns, results>>

vars == <<sessionVars, returnsVars>>

-----------------------------------------------------------------------------
(* Frames.  src is the receipt index of the frame this one was produced    *)
(* from (0: produced by the session itself), by the coroutine writing it.  *)

Frame(t, s, c, o, b) == [type |-> t, src |-> s, call_id |-> c, output |-> o, by |-> b]

NoCall == [call_id |-> 0, name |-> "", stage |-> 0, result |-> ""]

FCALL == "response.function_call_arguments.done"

\* The type values a caller frame may carry, one per shape of branch of the
\* caller loop ("#json" stands for a frame that is not JSON).
ClientMsgTypes ==
    {"audio", "session.update", "response.cancel", "text", "image.uploaded", "other",
     "#json"}

\* The tool names the upstream may ask for: one per kind of branch of
\* handle_tool_call and of the upstream loop's post-processing.
ToolNames ==
    {"search_products", "get_product_details", "add_to_cart", "view_cart",
     "no_such_tool"}

\* The frames the upstream may send.
UpstreamEvents ==
    {[type |-> t, name |-> "", args |-> ""] :
        t \in {"session.created", "response.audio.delta", "response.done",
               "response.created", "#json"}}
    \cup {[type |-> FCALL, name |-> n, args |-> "json"] : n \in ToolNames}
    \cup {[type |-> FCALL, name |-> "view_cart", args |-> "#json"]}

-----------------------------------------------------------------------------
(* The two connections.                                                    *)

\* Send with the frame put ahead of the frames already written.
Send_Prepend(q, f) == <<f>> \o q

\* websockets' send: the frame joins the connection's outgoing stream.
Send(q, f) == Append(q, f)

\* What a write to a caller that has gone may do: raise, or be dropped.
CallerSendOutcomes == IF callerUp THEN {"sent"} ELSE {"raise", "lost"}

\* The session as __init__ leaves it.
SessionInit ==
    /\ is_active = TRUE
    /\ websocket_closed = FALSE
    /\ openai_ws = "none"
    /\ callerUp = TRUE
    /\ pcRun = "connect"
    /\ pcA = "recv"
    /\ pcB = "recv"
    /\ cur = NoCall
    /\ fromCaller = <<>>
    /\ fromUpstream = <<>>
    /\ toUpstream = <<>>
    /\ toCaller = <<>>
    /\ activeTurn = FALSE

\* A session over a database that holds no order and no return.
Init ==
    /\ SessionInit
    /\ orders = <<>>
    /\ returns = <<>>
    /\ results = <<>>

-----------------------------------------------------------------------------
(* run(): connect_to_openai and configure_session.                         *)

connect_to_openai ==
    /\ pcRun = "connect"
    /\ \/ /\ openai_ws' = "open"
          /\ toUpstream' = Send(toUpstream, Frame("session.update", 0, 0, "", "run"))
          /\ pcRun' = "gather"
       \/ /\ pcRun' = "connect_failed"
          /\ UNCHANGED <<openai_ws, toUpstream>>
    /\ UNCHANGED <<is_active, websocket_closed, callerUp, pcA, pcB, cur,
                   fromCaller, fromUpstream, toCaller, activeTurn>>
    /\ UNCHANGED returnsVars

-----------------------------------------------------------------------------
(* process_client_messages.                                                *)

\* ClientRelay without the two barge-in branches.
ClientRelay_NoCancel(m) ==
    CASE m \in {"audio", "input_audio_buffer.append"} -> "input_audio_buffer.append"
      [] m \in {"audio.commit", "input_audio_buffer.commit"} -> "input_audio_buffer.commit"
      [] m = "text" -> "conversation.item.create"
      [] OTHER -> ""

\* ClientRelay that passes the caller's session.update on to the upstream.
ClientRelay_Passthrough(m) ==
    CASE m \in {"audio", "input_audio_buffer.append"} -> "input_audio_buffer.append"
      [] m \in {"audio.commit", "input_audio_buffer.commit"} -> "input_audio_buffer.commit"
      [] m \in {"response.cancel", "cancel"} -> "response.cancel"
      [] m = "text" -> "conversation.item.create"
      [] m = "session.update" -> "session.update"
      [] OTHER -> ""

\* The upstream frame a caller frame of type m is relayed as ("" : none).
ClientRelay(m) ==
    CASE m \in {"audio", "input_audio_buffer.append"} -> "input_audio_buffer.append"
      [] m \in {"audio.commit", "input_audio_buffer.commit"} -> "input_audio_buffer.commit"
      [] m \in {"response.cancel", "cancel"} -> "response.cancel"
      [] m = "text" -> "conversation.item.create"
      [] OTHER -> ""

\* except WebSocketDisconnect / except Exception: both set the flag and end.
client_except ==
    /\ websocket_closed' = TRUE
    /\ pcA' = "done"

process_client_messages_recv(m) ==
    /\ pcRun = "gather" /\ pcA = "recv" /\ is_active
    /\ callerUp
    /\ Len(fromCaller) + Len(fromUpstream) < MaxFrames
    /\ fromCaller' = Append(fromCaller, m)
    /\ LET n == Len(fromCaller) + 1
           f == ClientRelay(m)
       IN  CASE m = "#json" ->
                  /\ client_except
                  /\ UNCHANGED <<toUpstream, toCaller, activeTurn>>
             [] f # "" ->
                  IF openai_ws = "open"
                  THEN /\ toUpstream' = Send(toUpstream, Frame(f, n, 0, "", "client"))
                       /\ pcA' = IF m = "text" THEN "text_create" ELSE "recv"
                       /\ activeTurn' = IF f = "response.cancel" THEN FALSE ELSE activeTurn
                       /\ UNCHANGED <<websocket_closed, toCaller>>
                  ELSE /\ client_except
                       /\ UNCHANGED <<toUpstream, toCaller, activeTurn>>
             [] m = "image.uploaded" ->
                  /\ toCaller' = Send(toCaller, Frame("image.ready", n, 0, "", "client"))
                  /\ UNCHANGED <<websocket_closed, pcA, toUpstream, activeTurn>>
             [] OTHER ->
                  UNCHANGED <<websocket_closed, pcA, toUpstream, toCaller, activeTurn>>
    /\ UNCHANGED <<is_active, openai_ws, callerUp, pcRun, pcB, cur, fromUpstream>>
    /\ UNCHANGED returnsVars

\* The second send of the "text" branch: response.create.
process_client_messages_text ==
    /\ pcRun = "gather" /\ pcA = "text_create"
    /\ IF openai_ws = "open"
       THEN /\ toUpstream' = Send(toUpstream,
                                  Frame("response.create", Len(fromCaller), 0, "", "client"))
            /\ activeTurn' = TRUE
            /\ pcA' = "recv"
            /\ UNCHANGED websocket_closed
       ELSE /\ client_except
            /\ UNCHANGED <<toUpstream, activeTurn>>
    /\ UNCHANGED <<is_active, openai_ws, callerUp, pcRun, pcB, cur,
                   fromCaller, fromUpstream, toCaller>>
    /\ UNCHANGED returnsVars

\* receive_json raises WebSocketDisconnect once the caller has gone.
process_client_messages_disconnect ==
    /\ pcRun = "gather" /\ pcA = "recv"
    /\ ~callerUp
    /\ client_except
    /\ UNCHANGED <<is_active, openai_ws, callerUp, pcRun, pcB, cur,
                   fromCaller, fromUpstream, toUpstream, toCaller, activeTurn>>
    /\ UNCHANGED returnsVars

process_client_messages ==
    \/ \E m \in ClientMsgTypes : process_client_messages_recv(m)
    \/ process_client_messages_text
    \/ process_client_messages_disconnect

-----------------------------------------------------------------------------
(* process_openai_messages and handle_tool_call.                           *)

\* The caller frame an upstream event of type t is relayed as ("" : none).
UpstreamRelay(t) ==
    CASE t = "session.created" -> "session.ready"
      [] t = "response.audio.delta" -> "audio"
      [] t = "response.audio_transcript.delta" -> "transcript"
      [] t = "input_audio_buffer.speech_started" -> "user_speech_started"
      [] t = "input_audio_buffer.speech_stopped" -> "user_speech_stopped"
      [] t = "conversation.item.input_audio_transcription.completed" -> "transcript"
      [] t = "response.done" -> "response.complete"
      [] t = "error" -> "error"
      [] OTHER -> ""

\* The tools whose branch of handle_tool_call awaits a provider.
AsyncTools ==
    {"search_products", "get_product_details", "check_inventory", "create_order",
     "get_order_status", "initiate_return", "search_similar_products",
     "get_project_recommendations", "add_to_cart", "get_diy_videos"}

\* The tools whose branch builds its result without awaiting anything.
SyncTools ==
    {"view_cart", "remove_from_cart", "clear_cart", "view_orders",
     "get_order_by_number"}

\* SyncResult without the final else branch: result is never bound, and the
\* except clause answers for the UnboundLocalError.
SyncResult_NoElse(name) == IF name \in SyncTools THEN "ok" ELSE "exception"

\* The result of a branch that awaits nothing; the else branch answers
\* {"error": "Unknown tool: ..."}.
SyncResult(name) == IF name \in SyncTools THEN "ok" ELSE "unknown_tool"

\* The caller frame the upstream loop writes after a tool has run ("" : none).
ToolCallerMsg(name, res) ==
    CASE name \in {"search_products", "search_similar_products",
                   "get_project_recommendations"} ->
              IF res = "ok" THEN "products" ELSE ""
      [] name \in {"add_to_cart", "view_cart", "remove_from_cart", "clear_cart"} ->
              "cart_action"
      [] name = "get_diy_videos" -> IF res = "ok" THEN "diy_videos" ELSE ""
      [] name \in {"view_orders", "get_order_by_number"} -> "order_action"
      [] OTHER -> ""

\* openai_except that reports to the caller without looking at the flag.
openai_except_Unguarded ==
    /\ pcB' = "done"
    /\ cur' = NoCall
    /\ toCaller' = IF is_active /\ callerUp
                   THEN Send(toCaller, Frame("error", 0, 0, "", "openai_except"))
                   ELSE toCaller

\* except Exception of process_openai_messages: report to the caller if the
\* session believes it is there (a failing report is swallowed), and return.
openai_except ==
    /\ pcB' = "done"
    /\ cur' = NoCall
    /\ toCaller' = IF is_active /\ ~websocket_closed /\ callerUp
                   THEN Send(toCaller, Frame("error", 0, 0, "", "openai_except"))
                   ELSE toCaller

\* send_reply with the continuation request in the place of the result.
send_reply_CreateFirst(c, res) ==
    IF openai_ws = "open"
    THEN /\ toUpstream' = Send(toUpstream,
                               Frame("response.create", 0, c.call_id, "", "openai"))
         /\ pcB' = "create"
         /\ cur' = [c EXCEPT !.result = res]
         /\ UNCHANGED toCaller
    ELSE /\ openai_except
         /\ UNCHANGED toUpstream

\* "Send tool result back to GPT-4o": the function_call_output for call c.
send_reply(c, res) ==
    IF openai_ws = "open"
    THEN /\ toUpstream' = Send(toUpstream,
                               Frame("function_call_output", 0, c.call_id, res, "openai"))
         /\ pcB' = "create"
         /\ cur' = [c EXCEPT !.result = res]
         /\ UNCHANGED toCaller
    ELSE /\ openai_except
         /\ UNCHANGED toUpstream

\* The upstream loop from the return of handle_tool_call to its next await.
post_handler(c, res) ==
    LET msg == ToolCallerMsg(c.name, res)
    IN  IF msg # "" /\ ~websocket_closed
        THEN \E o \in CallerSendOutcomes :
                IF o = "raise"
                THEN /\ openai_except
                     /\ UNCHANGED toUpstream
                ELSE /\ toCaller' = IF o = "sent"
                                    THEN Send(toCaller, Frame(msg, 0, c.call_id, res, "openai"))
                                    ELSE toCaller
                     /\ pcB' = "reply"
                     /\ cur' = [c EXCEPT !.result = res]
                     /\ UNCHANGED toUpstream
        ELSE send_reply(c, res)

process_openai_messages_recv(e) ==
    /\ pcRun = "gather" /\ pcB = "recv"
    /\ openai_ws = "open"
    /\ Len(fromCaller) + Len(fromUpstream) < MaxFrames
    /\ fromUpstream' = Append(fromUpstream, e)
    /\ LET n == Len(fromUpstream) + 1
           f == UpstreamRelay(e.type)
       IN  CASE ~is_active ->
                  /\ pcB' = "done"
                  /\ UNCHANGED <<cur, toCaller, toUpstream, activeTurn>>
             [] is_active /\ (e.type = "#json" \/ e.args = "#json") ->
                  /\ openai_except
                  /\ UNCHANGED <<toUpstream, activeTurn>>
             [] is_active /\ e.type = FCALL /\ e.args = "json" ->
                  /\ IF e.name \in AsyncTools
                     THEN /\ pcB' = "handler"
                          /\ cur' = [call_id |-> n, name |-> e.name, stage |-> 0,
                                     result |-> ""]
                          /\ UNCHANGED <<toCaller, toUpstream>>
                     ELSE post_handler([call_id |-> n, name |-> e.name, stage |-> 0,
                                        result |-> ""], SyncResult(e.name))
                  /\ UNCHANGED activeTurn
             [] is_active /\ e.type # FCALL /\ e.type # "#json" /\ f # "" ->
                  /\ activeTurn' = IF e.type = "response.done" THEN FALSE ELSE activeTurn
                  /\ UNCHANGED toUpstream
                  /\ IF websocket_closed
                     THEN UNCHANGED <<pcB, cur, toCaller>>
                     ELSE \E o \in CallerSendOutcomes :
                            IF o = "raise"
                            THEN openai_except
                            ELSE /\ toCaller' = IF o = "sent"
                                                THEN Send(toCaller, Frame(f, n, 0, "", "openai"))
                                                ELSE toCaller
                                 /\ UNCHANGED <<pcB, cur>>
             [] OTHER ->
                  UNCHANGED <<pcB, cur, toCaller, toUpstream, activeTurn>>
    /\ UNCHANGED <<is_active, websocket_closed, openai_ws, callerUp, pcRun, pcA,
                   fromCaller>>
    /\ UNCHANGED returnsVars

\* async for over a connection the peer has closed: a clean close ends the
\* iteration, a failure raises ConnectionClosedError in it.
process_openai_messages_closed ==
    /\ pcRun = "gather" /\ pcB = "recv"
    /\ openai_ws \in {"peer_closed", "peer_failed"}
    /\ IF openai_ws = "peer_closed"
       THEN pcB' = "done" /\ UNCHANGED <<cur, toCaller>>
       ELSE openai_except
    /\ UNCHANGED <<is_active, websocket_closed, openai_ws, callerUp, pcRun, pcA,
                   fromCaller, fromUpstream, toUpstream, activeTurn>>
    /\ UNCHANGED returnsVars

\* The outcomes a running handler still has: a branch that has awaited its
\* last provider can only return its result.
ReturnOutcomes(c) ==
    IF (c.name = "add_to_cart" /\ c.stage >= 1) \/ c.stage = 2
    THEN {"ok"}
    ELSE {"ok", "exception"}

\* handle_tool_call without its except clause: the exception reaches the
\* upstream loop.
handle_tool_call_return_Propagates(o) ==
    /\ pcRun = "gather" /\ pcB = "handler"
    /\ o \in ReturnOutcomes(cur)
    /\ IF o = "exception"
       THEN openai_except /\ UNCHANGED toUpstream
       ELSE post_handler(cur, o)
    /\ UNCHANGED <<is_active, websocket_closed, openai_ws, callerUp, pcRun, pcA,
                   fromCaller, fromUpstream, activeTurn>>
    /\ UNCHANGED returnsVars

\* handle_tool_call returns: the branch's result, or the except clause's
\* {"error": str(e)}.
handle_tool_call_return(o) ==
    /\ pcRun = "gather" /\ pcB = "handler"
    /\ o \in ReturnOutcomes(cur)
    /\ post_handler(cur, o)
    /\ UNCHANGED <<is_active, websocket_closed, openai_ws, callerUp, pcRun, pcA,
                   fromCaller, fromUpstream, activeTurn>>
    /\ UNCHANGED returnsVars

\* A provider that never answers: nothing bounds the await.
handle_tool_call_hang ==
    /\ pcRun = "gather" /\ pcB = "handler"
    /\ "exception" \in ReturnOutcomes(cur)
    /\ pcB' = "hung"
    /\ UNCHANGED <<is_active, websocket_closed, openai_ws, callerUp, pcRun, pcA, cur,
                   fromCaller, fromUpstream, toUpstream, toCaller, activeTurn>>
    /\ UNCHANGED returnsVars

\* The cross_sell event of search_products (inside its own try/except) and
\* of add_to_cart (inside the outer try only). A send that raises inside the
\* outer try only makes the handler return {"error": str(e)} with the text
\* of the send's exception: the result "send_failed".
handle_tool_call_cross_sell ==
    /\ pcRun = "gather" /\ pcB = "handler"
    /\ cur.name \in {"search_products", "add_to_cart"} /\ cur.stage = 0
    /\ ~websocket_closed
    /\ \E o \in CallerSendOutcomes :
          IF o = "raise" /\ cur.name = "add_to_cart"
          THEN post_handler(cur, "send_failed")
          ELSE /\ toCaller' = IF o = "sent"
                              THEN Send(toCaller,
                                        Frame("cross_sell", 0, cur.call_id, "", "handle_tool_call"))
                              ELSE toCaller
               /\ cur' = [cur EXCEPT !.stage = 1]
               /\ UNCHANGED <<pcB, toUpstream>>
    /\ UNCHANGED <<is_active, websocket_closed, openai_ws, callerUp, pcRun, pcA,
                   fromCaller, fromUpstream, activeTurn>>
    /\ UNCHANGED returnsVars

\* The diy_videos event written only once the tool result has gone upstream.
handle_tool_call_diy_videos_Late ==
    /\ pcRun = "gather" /\ pcB = "create"
    /\ cur.name = "search_products" /\ cur.stage <= 1
    /\ ~websocket_closed /\ callerUp
    /\ toCaller' = Send(toCaller,
                        Frame("diy_videos", 0, cur.call_id, "", "handle_tool_call"))
    /\ cur' = [cur EXCEPT !.stage = 2]
    /\ UNCHANGED <<is_active, websocket_closed, openai_ws, callerUp, pcRun, pcA, pcB,
                   fromCaller, fromUpstream, toUpstream, activeTurn>>
    /\ UNCHANGED returnsVars

\* The diy_videos event of search_products (inside the outer try only).
handle_tool_call_diy_videos ==
    /\ pcRun = "gather" /\ pcB = "handler"
    /\ cur.name = "search_products" /\ cur.stage <= 1
    /\ ~websocket_closed
    /\ \E o \in CallerSendOutcomes :
          IF o = "raise"
          THEN post_handler(cur, "send_failed")
          ELSE /\ toCaller' = IF o = "sent"
                              THEN Send(toCaller,
                                        Frame("diy_videos", 0, cur.call_id, "", "handle_tool_call"))
                              ELSE toCaller
               /\ cur' = [cur EXCEPT !.stage = 2]
               /\ UNCHANGED <<pcB, toUpstream>>
    /\ UNCHANGED <<is_active, websocket_closed, openai_ws, callerUp, pcRun, pcA,
                   fromCaller, fromUpstream, activeTurn>>
    /\ UNCHANGED returnsVars

handle_tool_call ==
    \/ \E o \in {"ok", "exception"} : handle_tool_call_return(o)
    \/ handle_tool_call_hang
    \/ handle_tool_call_cross_sell
    \/ handle_tool_call_diy_videos

\* The function_call_output, when a caller frame was written before it.
process_openai_messages_reply ==
    /\ pcRun = "gather" /\ pcB = "reply"
    /\ send_reply(cur, cur.result)
    /\ UNCHANGED <<is_active, websocket_closed, openai_ws, callerUp, pcRun, pcA,
                   fromCaller, fromUpstream, activeTurn>>
    /\ UNCHANGED returnsVars

\* "Trigger response generation": response.create after the tool result.
process_openai_messages_create ==
    /\ pcRun = "gather" /\ pcB = "create"
    /\ IF openai_ws = "open"
       THEN /\ toUpstream' = Send(toUpstream,
                                  Frame("response.create", 0, cur.call_id, "", "openai"))
            /\ activeTurn' = TRUE
            /\ pcB' = "recv"
            /\ cur' = NoCall
            /\ UNCHANGED toCaller
       ELSE /\ openai_except
            /\ UNCHANGED <<toUpstream, activeTurn>>
    /\ UNCHANGED <<is_active, websocket_closed, openai_ws, callerUp, pcRun, pcA,
                   fromCaller, fromUpstream>>
    /\ UNCHANGED returnsVars

process_openai_messages ==
    \/ \E e \in UpstreamEvents : process_openai_messages_recv(e)
    \/ process_openai_messages_closed
    \/ process_openai_messages_reply
    \/ process_openai_messages_create

-----------------------------------------------------------------------------
(* close(), called from run()'s finally and from the endpoint's finally.   *)

\* close() that closes, and writes its close frame, whatever the connection.
close_Unguarded ==
    /\ is_active' = FALSE
    /\ openai_ws' = "closed"
    /\ toUpstream' = Send(toUpstream, Frame("#close", 0, 0, "", "close"))

close ==
    /\ is_active' = FALSE
    /\ IF openai_ws = "open"
       THEN /\ openai_ws' = "closed"
            /\ toUpstream' = Send(toUpstream, Frame("#close", 0, 0, "", "close"))
       ELSE UNCHANGED <<openai_ws, toUpstream>>

\* run() that closes without waiting for the two loops to return.
run_finally_NoWait ==
    /\ pcRun \in {"gather", "connect_failed"}
    /\ close
    /\ pcRun' = IF pcRun = "connect_failed" \/ (pcA = "done" /\ pcB = "done")
                THEN "run_returned" ELSE pcRun
    /\ UNCHANGED <<websocket_closed, callerUp, pcA, pcB, cur, fromCaller,
                   fromUpstream, toCaller, activeTurn>>
    /\ UNCHANGED returnsVars

run_finally ==
    /\ \/ pcRun = "gather" /\ pcA = "done" /\ pcB = "done"
       \/ pcRun = "connect_failed"
    /\ close
    /\ pcRun' = "run_returned"
    /\ UNCHANGED <<websocket_closed, callerUp, pcA, pcB, cur, fromCaller,
                   fromUpstream, toCaller, activeTurn>>
    /\ UNCHANGED returnsVars

realtime_websocket_finally ==
    /\ pcRun = "run_returned"
    /\ close
    /\ pcRun' = "ended"
    /\ UNCHANGED <<websocket_closed, callerUp, pcA, pcB, cur, fromCaller,
                   fromUpstream, toCaller, activeTurn>>
    /\ UNCHANGED returnsVars

-----------------------------------------------------------------------------
(* The peers.                                                              *)

CallerDrop ==
    /\ pcRun = "gather" /\ callerUp
    /\ callerUp' = FALSE
    /\ UNCHANGED <<is_active, websocket_closed, openai_ws, pcRun, pcA, pcB, cur,
                   fromCaller, fromUpstream, toUpstream, toCaller, activeTurn>>
    /\ UNCHANGED returnsVars

UpstreamDrop ==
    /\ pcRun = "gather" /\ openai_ws = "open"
    /\ openai_ws' \in {"peer_closed", "peer_failed"}
    /\ UNCHANGED <<is_active, websocket_closed, callerUp, pcRun, pcA, pcB, cur,
                   fromCaller, fromUpstream, toUpstream, toCaller, activeTurn>>
    /\ UNCHANGED returnsVars

Next ==
    \/ connect_to_openai
    \/ process_client_messages
    \/ process_openai_messages
    \/ handle_tool_call
    \/ run_finally
    \/ realtime_websocket_finally
    \/ CallerDrop
    \/ UpstreamDrop

Spec == Init /\ [][Next]_vars

-----------------------------------------------------------------------------
(* ReturnsAgent.initiate_return over the orders and returns collections.   *)

\* The ids a call may name: order "o1" is in the database and "o2" is not;
\* product "p1" is an item of the order and "p2" is not.
OrderIds == {"o1", "o2"}
ProductIds == {"p1", "p2"}

\* The statuses of an order that may be returned, and the statuses the
\* order of the model may have: one of them, and one other.
ReturnableStatuses == {"confirmed", "processing", "shipped", "delivered"}
OrderStatuses == {"delivered", "cancelled"}

\* The order documents: one item, of product "p1".
OrderDocs ==
    {[status |-> st, items |-> <<[product_id |-> "p1", quantity |-> q]>>] :
        st \in OrderStatuses, q \in 1..MaxOrdered}

\* The quantities a call may ask for.
Quantities == 1..(MaxOrdered + 1)

NoItem == [product_id |-> "", quantity |-> 0]

\* "Find the product in the order": the first item with that product_id.
FindItem(order, product_id) ==
    LET found == {i \in DOMAIN order.items : order.items[i].product_id = product_id}
    IN  IF found = {} THEN NoItem
        ELSE order.items[CHOOSE i \in found : \A k \in found : i <= k]

\* What initiate_return answers.
Reply(success, summary) == [success |-> success, summary |-> summary]

\* "Check quantity": the call asks for more than the item's quantity.
QuantityRejected(quantity, order_item) == quantity > order_item.quantity

InitReturns ==
    /\ SessionInit
    /\ \E d \in OrderDocs : orders = [o \in {"o1"} |-> d]
    /\ returns = <<>>
    /\ results = <<>>

initiate_return(order_id, product_id, quantity) ==
    /\ Len(results) < MaxCalls
    /\ \/ \* an await of the database raises: the except clause answers
          /\ results' = Append(results, Reply(FALSE, "error"))
          /\ UNCHANGED returns
       \/ IF order_id \notin DOMAIN orders
          THEN /\ results' = Append(results, Reply(FALSE, "no_order"))
               /\ UNCHANGED returns
          ELSE LET order == orders[order_id]
                   order_item == FindItem(order, product_id)
               IN  IF order.status \notin ReturnableStatuses
                   THEN /\ results' = Append(results, Reply(FALSE, "not_eligible"))
                        /\ UNCHANGED returns
                   ELSE IF order_item = NoItem
                   THEN /\ results' = Append(results, Reply(FALSE, "no_product"))
                        /\ UNCHANGED returns
                   ELSE IF QuantityRejected(quantity, order_item)
                   THEN /\ results' = Append(results, Reply(FALSE, "quantity"))
                        /\ UNCHANGED returns
                   ELSE /\ returns' = Append(returns,
                                             [order_id |-> order_id,
                                              product_id |-> product_id,
                                              quantity |-> quantity,
                                              status |-> "initiated"])
                        /\ results' = Append(results, Reply(TRUE, "initiated"))
    /\ UNCHANGED <<orders, sessionVars>>

NextReturns ==
    \E order_id \in OrderIds, product_id \in ProductIds, quantity \in Quantities :
        initiate_return(order_id, product_id, quantity)

SpecReturns == InitReturns /\ [][NextReturns]_vars

-----------------------------------------------------------------------------
(* What the claims speak of.                                               *)

Last(q) == q[Len(q)]

\* The session states of the specification, read off the positions.
Active == pcRun = "gather" /\ pcA # "done" /\ pcB # "done"
Draining == pcRun = "gather" /\ (pcA = "done" \/ pcB = "done")
Closed == pcRun \in {"run_returned", "ended"}

\* The tool-call requests read so far, by call_id.
Requests == {i \in DOMAIN fromUpstream : fromUpstream[i].type = FCALL}

\* How many function_call_output frames for call c went upstream.
Outputs(c) ==
    Cardinality({j \in DOMAIN toUpstream :
                    /\ toUpstream[j].type = "function_call_output"
                    /\ toUpstream[j].call_id = c})

\* The upstream loop is still on its way to answering call c.
Serving(c) == cur.call_id = c /\ pcB \in {"handler", "reply"}

\* The steps the session can take without a new frame from either peer.
OwnStep ==
    \/ process_client_messages_text
    \/ process_client_messages_disconnect
    \/ process_openai_messages_closed
    \/ process_openai_messages_reply
    \/ process_openai_messages_create
    \/ handle_tool_call
    \/ run_finally
    \/ realtime_websocket_finally

\* C1: every tool-call request the session has read is answered upstream by
\* exactly one function_call_output with its call_id: never by two, and, as
\* long as the upstream connection is open, an unanswered request is one the
\* upstream loop is still serving.
C1_ToolCallTotality ==
    \A c \in Requests :
        /\ Outputs(c) <= 1
        /\ (Outputs(c) = 0 /\ openai_ws = "open") => Serving(c)

\* C2: the session never sends response.create while a response it asked for
\* earlier has neither been reported done nor been cancelled.
C2_SingleActiveTurn ==
    [][\A j \in (Len(toUpstream) + 1)..Len(toUpstream') :
          toUpstream'[j].type = "response.create" => ~activeTurn]_vars

\* The caller frames that signal a barge-in.
BargeInTypes == {"response.cancel", "cancel"}

\* A barge-in frame of the caller is read while a turn is active.
BargeInStep ==
    /\ pcA = "recv" /\ Len(fromCaller') = Len(fromCaller) + 1
    /\ Last(fromCaller') \in BargeInTypes
    /\ activeTurn /\ openai_ws = "open"

\* Every caller frame relayed after a barge-in frame follows that frame's
\* one response.cancel in the upstream stream.
CancelFirst ==
    \A i \in DOMAIN fromCaller :
        fromCaller[i] \in BargeInTypes =>
            /\ Cardinality({j \in DOMAIN toUpstream : toUpstream[j].src = i}) <= 1
            /\ \A k \in DOMAIN toUpstream :
                  (toUpstream[k].by = "client" /\ toUpstream[k].src > i) =>
                      \E j \in 1..(k - 1) :
                          /\ toUpstream[j].src = i
                          /\ toUpstream[j].type = "response.cancel"

EndedOnCallerDisconnect ==
    /\ pcRun = "gather" /\ pcA = "done" /\ ~callerUp
    /\ openai_ws = "open"
    /\ \A i \in DOMAIN fromCaller : fromCaller[i] # "#json"

\* C4: once the caller loop has ended on the caller's disconnect, the session
\* can go on to close the upstream connection by steps of its own, without a
\* further upstream frame and without the upstream closing first.
C4_CallerDisconnect ==
    (EndedOnCallerDisconnect /\ pcB # "hung") => ENABLED OwnStep

\* The upstream loop has returned because the upstream closed or failed: no
\* frame it read was undecodable and no caller write of its own failed.
EndedOnUpstreamDisconnect ==
    /\ pcRun = "gather" /\ pcB = "done"
    /\ openai_ws \in {"peer_closed", "peer_failed"}
    /\ callerUp
    /\ \A i \in DOMAIN fromUpstream :
          fromUpstream[i].type # "#json" /\ fromUpstream[i].args # "#json"

\* C5: once the upstream loop has ended on the upstream's close or failure,
\* the session can go on to close by steps of its own, without a further
\* caller frame or a caller disconnect.
C5_UpstreamDisconnect ==
    EndedOnUpstreamDisconnect => ENABLED OwnStep

\* The frames the caller loop relayed upstream, and the upstream loop relayed
\* to the caller.
RelayedUp == {j \in DOMAIN toUpstream : toUpstream[j].by = "client"}
RelayedDown == {j \in DOMAIN toCaller : toCaller[j].by = "openai" /\ toCaller[j].src > 0}

\* C6: in each direction the relayed frames leave in receipt order: a frame
\* relayed later was received later (the two frames of one text input keep
\* their order), and each is the relay of the frame it was received as.
C6_PerDirectionOrder ==
    /\ \A j, k \in RelayedUp :
          j < k => \/ toUpstream[j].src < toUpstream[k].src
                   \/ /\ toUpstream[j].src = toUpstream[k].src
                      /\ toUpstream[j].type = "conversation.item.create"
                      /\ toUpstream[k].type = "response.create"
    /\ \A j \in RelayedUp :
          /\ toUpstream[j].src \in DOMAIN fromCaller
          /\ toUpstream[j].type \in
                {ClientRelay(fromCaller[toUpstream[j].src]), "response.create"}
    /\ \A j, k \in RelayedDown : j < k => toCaller[j].src < toCaller[k].src
    /\ \A j \in RelayedDown :
          /\ toCaller[j].src \in DOMAIN fromUpstream
          /\ toCaller[j].type = UpstreamRelay(fromUpstream[toCaller[j].src].type)

C6_Witness ==
    \/ /\ Len(fromCaller) = 2 /\ Cardinality(RelayedUp) >= 2
       /\ \E j, k \in RelayedUp : toUpstream[j].src # toUpstream[k].src
    \/ /\ Len(fromUpstream) = 2 /\ Cardinality(RelayedDown) = 2

\* C7: the second close(), the endpoint's after run()'s, changes nothing the
\* first left behind and writes no frame.
C7_IdempotentClose ==
    [][(pcRun = "run_returned" /\ pcRun' = "ended") =>
          UNCHANGED <<is_active, websocket_closed, openai_ws, callerUp,
                      toUpstream, toCaller>>]_vars

C7_Witness ==
    /\ pcRun = "ended" /\ openai_ws = "closed" /\ ~is_active
    /\ Cardinality({j \in DOMAIN toUpstream : toUpstream[j].type = "#close"}) = 1

\* A request for a tool that is not registered is read (its arguments parse).
UnknownToolStep ==
    /\ pcB = "recv" /\ Len(fromUpstream') = Len(fromUpstream) + 1
    /\ Last(fromUpstream').type = FCALL
    /\ Last(fromUpstream').args = "json"
    /\ Last(fromUpstream').name \notin (AsyncTools \cup SyncTools)

\* C8: a request for an unregistered tool is answered upstream, under its
\* call_id, with the unknown-tool error; the upstream loop goes on to its
\* response.create, and neither the flags nor the connections change.
C8_UnknownTool ==
    [][UnknownToolStep =>
          /\ toUpstream' = Append(toUpstream,
                 Frame("function_call_output", 0, Len(fromUpstream'),
                       "unknown_tool", "openai"))
          /\ pcB' = "create"
          /\ UNCHANGED <<is_active, websocket_closed, openai_ws, callerUp, pcA,
                         pcRun, toCaller>>]_vars

C8_Witness ==
    /\ Active /\ pcB = "recv" /\ openai_ws = "open" /\ callerUp
    /\ \E j \in DOMAIN toUpstream :
          /\ toUpstream[j].type = "function_call_output"
          /\ toUpstream[j].output = "unknown_tool"
          /\ j < Len(toUpstream)
          /\ toUpstream[j + 1].type = "response.create"
          /\ toUpstream[j + 1].call_id = toUpstream[j].call_id

\* A running handler ends otherwise than by returning its branch's result,
\* with both connections up.
HandlerFailedStep ==
    /\ pcB = "handler" /\ pcB' \notin {"handler", "hung"}
    /\ cur'.result # "ok"
    /\ callerUp /\ openai_ws = "open"

\* C9: with both connections up, a handler that raises yields the error
\* result for its call_id: the upstream loop goes on (it does not return),
\* and the function_call_output it writes, at once or after the caller
\* frame of the tool, carries that error.
C9_HandlerFailure ==
    [][/\ HandlerFailedStep =>
            /\ pcB' \in {"reply", "create"}
            /\ cur' = [cur EXCEPT !.result = "exception"]
            /\ UNCHANGED <<is_active, websocket_closed, openai_ws, pcA, pcRun>>
            /\ pcB' = "create" =>
                  toUpstream' = Append(toUpstream,
                      Frame("function_call_output", 0, cur.call_id, "exception", "openai"))
       /\ (pcB = "reply" /\ pcB' # "reply" /\ openai_ws = "open") =>
            /\ pcB' = "create"
            /\ toUpstream' = Append(toUpstream,
                   Frame("function_call_output", 0, cur.call_id, cur.result, "openai"))]_vars

C9_Witness ==
    /\ Active /\ callerUp /\ openai_ws = "open" /\ pcB = "recv"
    /\ \E j \in DOMAIN toUpstream :
          /\ toUpstream[j].type = "function_call_output"
          /\ toUpstream[j].output = "exception"
          /\ fromUpstream[toUpstream[j].call_id].name = "add_to_cart"

\* C10: a handler that never returns does not leave the upstream loop
\* without a step to take: dispatch can still end and answer the call.
C10_HandlerTimeout ==
    pcB = "hung" => ENABLED (process_openai_messages \/ handle_tool_call)

\* C11: a tool-call request whose arguments are not valid JSON is answered
\* upstream by one function_call_output with its call_id, and reading it
\* does not end the upstream loop.
C11_MalformedArguments ==
    \A c \in Requests :
        (fromUpstream[c].args = "#json" /\ openai_ws = "open" /\ callerUp) =>
            /\ Outputs(c) = 1 \/ Serving(c)
            /\ c = Len(fromUpstream) => pcB # "done"

\* A frame that is not valid JSON is read from the caller.
CallerDecodeFailure ==
    /\ pcA = "recv" /\ Len(fromCaller') = Len(fromCaller) + 1
    /\ Last(fromCaller') = "#json"

\* A frame that is not valid JSON is read from upstream.
UpstreamDecodeFailure ==
    /\ pcB = "recv" /\ Len(fromUpstream') = Len(fromUpstream) + 1
    /\ Last(fromUpstream').type = "#json"

\* C12: reading a frame that is not valid JSON drops that frame and nothing
\* else: the loop that read it goes on to its next read, nothing is written
\* to either peer, and neither connection is closed or marked closed.
C12_DecodeFailureNonFatal ==
    [][/\ CallerDecodeFailure =>
            /\ pcA' = "recv" /\ websocket_closed' = websocket_closed
            /\ toUpstream' = toUpstream /\ toCaller' = toCaller
       /\ UpstreamDecodeFailure =>
            /\ pcB' = "recv" /\ openai_ws' = openai_ws
            /\ toUpstream' = toUpstream /\ toCaller' = toCaller]_vars

\* The terminal control messages the session has written to the caller.
TerminalMessages == {j \in DOMAIN toCaller : toCaller[j].type = "error"}

\* C13: when the upstream connection could not be established and the
\* endpoint has finished, the caller has been sent exactly one control
\* message that reports it.
C13_UpstreamUnavailable ==
    (pcRun = "ended" /\ openai_ws = "none") =>
        Cardinality(TerminalMessages) = 1

\* C14: when the upstream loop has ended on the upstream's close or failure
\* while the caller is connected and not marked closed, the caller has been
\* sent exactly one terminal control message.
C14_UpstreamFailureReported ==
    (EndedOnUpstreamDisconnect /\ ~websocket_closed) =>
        Cardinality(TerminalMessages) = 1

\* C15: while a tool handler is running, the session can still read and
\* forward the next frame in either direction: the caller's next frame
\* upstream, and the upstream's next frame to the caller.
C15_SlowHandlerNoStall ==
    ( /\ pcRun = "gather" /\ pcB = "handler" /\ pcA = "recv"
      /\ openai_ws = "open" /\ callerUp /\ ~websocket_closed
      /\ Len(fromCaller) + Len(fromUpstream) < MaxFrames ) =>
        /\ ENABLED (\E m \in ClientMsgTypes : process_client_messages_recv(m))
        /\ ENABLED (\E e \in UpstreamEvents : process_openai_messages_recv(e))

\* The coroutines that are suspended inside a write to the upstream
\* connection: the caller loop between the two frames of a text message, the
\* upstream loop between function_call_output and response.create.
WritingUpstream ==
    (IF pcA = "text_create" THEN {"client"} ELSE {})
    \cup (IF pcB = "create" THEN {"openai"} ELSE {})

\* C16: at no instant are two producers inside a write to the upstream
\* connection.
C16_SingleWriter ==
    pcRun = "gather" => Cardinality(WritingUpstream) <= 1

\* C17: a failure to emit cross_sell or diy_videos to the caller never becomes
\* the result of the tool call: neither the result the upstream loop holds
\* nor any function_call_output sent upstream is the emission's failure.
C17_BestEffortEmission ==
    /\ cur.result # "send_failed"
    /\ \A j \in DOMAIN toUpstream : toUpstream[j].output # "send_failed"

\* The tool results that are an error payload.
ErrorResults == {"exception", "send_failed", "unknown_tool"}

\* C18: no frame written to the caller carries the error payload of a failed
\* tool call.
C18_NoRawErrorToCaller ==
    \A j \in DOMAIN toCaller : toCaller[j].output \notin ErrorResults

\* The upstream has acknowledged the session: a session.created event has
\* been read.
Acknowledged ==
    \E i \in DOMAIN fromUpstream : fromUpstream[i].type = "session.created"

\* The upstream frames that carry the caller's audio or text.
CallerContentTypes ==
    {"input_audio_buffer.append", "input_audio_buffer.commit",
     "conversation.item.create"}

\* C19: no audio or text frame of the caller is written upstream before the
\* upstream's acknowledgment has been read.
C19_ConfigureBeforeActive ==
    [][\A j \in (Len(toUpstream) + 1)..Len(toUpstream') :
          toUpstream'[j].type \in CallerContentTypes => Acknowledged]_vars

\* The session has closed the caller connection: it wrote the close frame.
CallerClosedBySession ==
    \E j \in DOMAIN toCaller : toCaller[j].type = "#close"

\* C20: once close() has completed, the upstream connection is no longer
\* open and a caller connection that the caller has not left has been closed
\* by the session.
C20_CloseClosesBoth ==
    Closed =>
        /\ openai_ws # "open"
        /\ callerUp => CallerClosedBySession

\* The caller frames that are side-channel events of a tool call.
SideChannelTypes == {"cross_sell", "diy_videos"}

\* C21: whenever a side-channel event of a tool call is written to the
\* caller, no function_call_output for that call has been sent upstream.
C21_SideChannelFirst ==
    [][\A j \in (Len(toCaller) + 1)..Len(toCaller') :
          toCaller'[j].type \in SideChannelTypes =>
              \A k \in DOMAIN toUpstream' :
                  ~ /\ toUpstream'[k].type = "function_call_output"
                    /\ toUpstream'[k].call_id = toCaller'[j].call_id]_vars

C21_Witness ==
    \E j \in DOMAIN toCaller : \E k \in DOMAIN toUpstream :
        /\ toCaller[j].type \in SideChannelTypes
        /\ toUpstream[k].type = "function_call_output"
        /\ toUpstream[k].call_id = toCaller[j].call_id

\* The continuation requests the upstream loop sent for call c.
Continuations(c) ==
    {j \in DOMAIN toUpstream :
        /\ toUpstream[j].type = "response.create"
        /\ toUpstream[j].by = "openai"
        /\ toUpstream[j].call_id = c}

\* C22: a tool call gets at most one continuation request, each one after
\* the call's function_call_output; and once the result has been sent over an
\* upstream connection that is still open, the upstream loop is at the
\* continuation request of that call.
C22_ReplyThenContinue ==
    \A c \in Requests :
        /\ Cardinality(Continuations(c)) <= 1
        /\ \A j \in Continuations(c) :
              \E k \in 1..(j - 1) :
                  /\ toUpstream[k].type = "function_call_output"
                  /\ toUpstream[k].call_id = c
        /\ (Outputs(c) = 1 /\ Continuations(c) = {} /\ openai_ws = "open") =>
              (pcRun = "gather" /\ pcB = "create" /\ cur.call_id = c)

C22_Witness ==
    \E c \in Requests :
        /\ Outputs(c) = 1 /\ Cardinality(Continuations(c)) = 1
        /\ pcB = "recv" /\ openai_ws = "open"

\* C23: the function_call_output frames go upstream in the order in which
\* their requests were read from upstream.
C23_FifoReplies ==
    \A j, k \in DOMAIN toUpstream :
        ( /\ j < k
          /\ toUpstream[j].type = "function_call_output"
          /\ toUpstream[k].type = "function_call_output" ) =>
            toUpstream[j].call_id < toUpstream[k].call_id

C23_Witness ==
    \E j, k \in DOMAIN toUpstream :
        /\ j < k
        /\ toUpstream[j].type = "function_call_output"
        /\ toUpstream[k].type = "function_call_output"

\* C24: once close() has made the session inactive, is_active stays false
\* and no frame is written to either connection.
C24_ClosedIsTerminal ==
    [][~is_active =>
          /\ ~is_active'
          /\ toUpstream' = toUpstream
          /\ toCaller' = toCaller]_vars

C24_Witness ==
    /\ pcRun = "ended" /\ ~is_active
    /\ RelayedUp # {} /\ RelayedDown # {}

\* C25: the frame that follows a function_call_output on the upstream
\* connection is never one produced by the caller loop.
C25_AtomicToolReply ==
    \A j \in DOMAIN toUpstream :
        (toUpstream[j].type = "function_call_output" /\ j < Len(toUpstream)) =>
            toUpstream[j + 1].by # "client"

\* A step of the upstream loop that starts a tool handler: it enters an
\* awaiting branch of handle_tool_call, or runs a branch that awaits nothing
\* and sends its result.
StartsHandler ==
    /\ pcB = "recv"
    /\ \/ pcB' = "handler"
       \/ Len(fromUpstream') = Len(fromUpstream) + 1
          /\ Last(fromUpstream').type = FCALL
          /\ Last(fromUpstream').name \in SyncTools
          /\ Last(fromUpstream').args = "json"

\* C26: once the caller has disconnected and websocket_closed is true, no
\* step starts a tool handler.
C26_NoToolForDepartedCaller ==
    [][( /\ websocket_closed /\ ~callerUp
         /\ \A i \in DOMAIN fromCaller : fromCaller[i] # "#json" ) =>
            ~StartsHandler]_vars

\* C27: websocket_closed is true only when the caller has disconnected or a
\* frame of the caller could not be read.
C27_FlagTruthful ==
    websocket_closed =>
        \/ ~callerUp
        \/ \E i \in DOMAIN fromCaller : fromCaller[i] = "#json"

\* C28: once websocket_closed is true it stays true, and nothing more is
\* written to the caller connection.
C28_NoCallerWriteAfterFlag ==
    [][websocket_closed =>
          /\ websocket_closed'
          /\ toCaller' = toCaller]_vars

\* The upstream loop ended in its except clause with the flag set and the
\* caller still connected: the report to the caller was held back.
C28_Witness ==
    /\ websocket_closed /\ callerUp
    /\ pcB = "done" /\ openai_ws = "peer_failed"
    /\ TerminalMessages = {}
    /\ \A i \in DOMAIN fromUpstream :
          fromUpstream[i].type # "#json" /\ fromUpstream[i].args # "#json"

\* The caller frames that are not relayed: session.update, image.uploaded and
\* a type no branch of the caller loop names.
NotRelayedTypes == {"session.update", "image.uploaded", "other"}

\* C29: reading a caller frame that is not relayed writes nothing upstream
\* and leaves is_active and websocket_closed as they were.
C29_NotRelayedFrames ==
    [][( /\ pcA = "recv" /\ Len(fromCaller') = Len(fromCaller) + 1
         /\ Last(fromCaller') \in NotRelayedTypes ) =>
            /\ toUpstream' = toUpstream
            /\ is_active' = is_active
            /\ websocket_closed' = websocket_closed]_vars

\* All three kinds of frame that are not relayed can be read in a session
\* that goes on afterwards; two of them in one run.
C29_Witness ==
    /\ Len(fromCaller) = MaxFrames
    /\ \A i \in DOMAIN fromCaller : fromCaller[i] \in NotRelayedTypes
    /\ fromCaller[1] # fromCaller[MaxFrames]
    /\ pcRun = "gather" /\ pcA = "recv" /\ is_active /\ ~websocket_closed

\* The quantity of product p that order o holds.
Ordered(o, p) == FindItem(orders[o], p).quantity

\* The total quantity of product p of order o in the first n return records.
RECURSIVE Returned(_, _, _)
Returned(n, o, p) ==
    IF n = 0 THEN 0
    ELSE Returned(n - 1, o, p)
         + (IF returns[n].order_id = o /\ returns[n].product_id = p
            THEN returns[n].quantity ELSE 0)

\* C30: for every order and product, the total quantity in the return
\* records is at most the quantity ordered, and no single return record asks
\* for more than was ordered.
C30_ReturnedBounded ==
    /\ \A o \in DOMAIN orders : \A p \in ProductIds :
          Returned(Len(returns), o, p) <= Ordered(o, p)
    /\ \A i \in DOMAIN returns :
          returns[i].quantity <= Ordered(returns[i].order_id, returns[i].product_id)

====
